---- MODULE Spec2Model ----
(***************************************************************************)
(* Model of python_example.py: the environment reporter main() and the     *)
(* entry-point guard that calls it.                                        *)
(*                                                                         *)
(* A path is a sequence of components; an absolute path starts with the    *)
(* component "/".  A printed line is a record [label, val] whose val is    *)
(* the sequence of components of the formatted value.                      *)
(***************************************************************************)
EXTENDS Naturals, Integers, Sequences, FiniteSets, TLC

VARIABLES env, argForm, pc, out, project_root, ret, exitCode, prev

vars == <<env, argForm, pc, out, project_root, ret, exitCode, prev>>

-----------------------------------------------------------------------------
(* Bounds and the sets the inputs are drawn from *)

MaxDepth == 2

HomePath == <<"/", "home", "user", "project", "sub">>

\* Directories /home, /home/user, ... down to depth MaxDepth
Dirs == { SubSeq(HomePath, 1, n + 1) : n \in 1..MaxDepth }

ScriptName == "python_example.py"

\* A symbolic link to the script, kept outside the tree of Dirs
LinkPath == <<"/", "opt", "run.py">>

Versions == {"3.8", "3.11"}

Prefixes == { <<"/", "usr">>, <<"/", "venv">> }

\* The value standing for an attribute that sys does not have
Absent == <<>>

\* How the script is handed to the interpreter
ArgForms == {"abs", "rel", "dotrel", "link", "stdin"}

Envs ==
  [ version     : Versions,
    cwd         : Dirs,
    cwdExists   : BOOLEAN,
    prefix      : Prefixes,
    base_prefix : Prefixes \cup {Absent},
    real_prefix : {Absent, <<"/", "usr">>},
    scriptDir   : Dirs ]

NoValue == "<no value>"

-----------------------------------------------------------------------------
(* Pure helpers *)

IsAbs(p) == Len(p) > 0 /\ p[1] = "/"

RECURSIVE CommonLen(_, _)
CommonLen(a, b) ==
  IF a = <<>> \/ b = <<>> \/ Head(a) /= Head(b) THEN 0
  ELSE 1 + CommonLen(Tail(a), Tail(b))

\* The relative path a user in directory from types to name target
RelTo(from, target) ==
  LET k == CommonLen(from, target)
  IN  [i \in 1..(Len(from) - k) |-> ".."] \o SubSeq(target, k + 1, Len(target))

ScriptPath(e) == e.scriptDir \o <<ScriptName>>

\* The script argument on the command line
Arg(e, form) ==
  CASE form = "abs"    -> ScriptPath(e)
    [] form = "rel"    -> RelTo(e.cwd, ScriptPath(e))
    [] form = "dotrel" -> <<".">> \o RelTo(e.cwd, ScriptPath(e))
    [] form = "link"   -> LinkPath
    [] OTHER           -> <<>>

\* hasattr(sys, name)
HasAttr(v) == v /= Absent

\* Since 3.9 the interpreter makes __file__ of __main__ absolute by joining
\* the working directory and the argument, without normalising it
MainFileIsAbsolute(version) == version = "3.11"

FileDefined(form) == form /= "stdin"

FileAttr(e, form) ==
  IF IsAbs(Arg(e, form)) \/ ~MainFileIsAbsolute(e.version)
  THEN Arg(e, form)
  ELSE e.cwd \o Arg(e, form)

\* pathlib.Path(s): "." components are dropped
PathOf(s) == SelectSeq(s, LAMBDA c : c /= ".")

\* Path.parent
Parent(p) ==
  IF p = <<>> \/ p = <<"/">> THEN p ELSE SubSeq(p, 1, Len(p) - 1)

\* str(Path): the empty relative path is written "."
PathStr(p) == IF p = <<>> THEN <<".">> ELSE p

\* Mutant: the directory of the script taken for the working directory
GetCwd_ScriptDir(e) == e.scriptDir

GetCwd(e) == e.cwd

\* Mutant: base_prefix is not compared with prefix
InVenv_NoCompare(e) == HasAttr(e.real_prefix) \/ HasAttr(e.base_prefix)

InVenv(e) ==
  HasAttr(e.real_prefix)
    \/ (HasAttr(e.base_prefix) /\ e.base_prefix /= e.prefix)

Line(label, val) == [label |-> label, val |-> val]

WriteStdout(l) == out' = Append(out, l)

-----------------------------------------------------------------------------
(* Initial state: no process started yet *)

Init ==
  /\ env \in Envs
  /\ argForm \in ArgForms
  /\ pc = "idle"
  /\ out = <<>>
  /\ project_root = Absent
  /\ ret = NoValue
  /\ exitCode = -1
  /\ prev = <<>>

-----------------------------------------------------------------------------
(* The process: the entry-point guard and the steps of main() *)

\* A relative script argument is opened relative to the working directory
Runnable(e, form) == e.cwdExists \/ form \in {"abs", "link", "stdin"}

\* An exception nobody catches: traceback, exit status 1
Raise ==
  /\ pc' = "failed"
  /\ exitCode' = 1
  /\ UNCHANGED <<env, argForm, out, project_root, ret, prev>>

\* if __name__ == "__main__": main()
Launch ==
  /\ pc = "idle"
  /\ Runnable(env, argForm)
  /\ pc' = "l12"
  /\ UNCHANGED <<env, argForm, out, project_root, ret, exitCode, prev>>

PrintBanner ==
  /\ pc = "l12"
  /\ WriteStdout(Line("banner", <<>>))
  /\ pc' = "l13"
  /\ UNCHANGED <<env, argForm, project_root, ret, exitCode, prev>>

PrintVersion ==
  /\ pc = "l13"
  /\ WriteStdout(Line("Python version", <<env.version>>))
  /\ pc' = "l14"
  /\ UNCHANGED <<env, argForm, project_root, ret, exitCode, prev>>

\* Mutant: the step changes into the directory of the script
PrintCwd_Chdir ==
  /\ pc = "l14"
  /\ IF env.cwdExists
     THEN /\ WriteStdout(Line("Current working directory", GetCwd(env)))
          /\ pc' = "l15"
          /\ env' = [env EXCEPT !.cwd = env.scriptDir]
          /\ UNCHANGED <<argForm, project_root, ret, exitCode, prev>>
     ELSE Raise

\* Mutant: the exception of os.getcwd() is caught and the run goes on
PrintCwd_Swallow ==
  /\ pc = "l14"
  /\ IF env.cwdExists
     THEN WriteStdout(Line("Current working directory", GetCwd(env)))
     ELSE WriteStdout(Line("Current working directory", <<>>))
  /\ pc' = "l15"
  /\ UNCHANGED <<env, argForm, project_root, ret, exitCode, prev>>

\* os.getcwd() raises FileNotFoundError when the directory is gone
PrintCwd ==
  /\ pc = "l14"
  /\ IF env.cwdExists
     THEN /\ WriteStdout(Line("Current working directory", GetCwd(env)))
          /\ pc' = "l15"
          /\ UNCHANGED <<env, argForm, project_root, ret, exitCode, prev>>
     ELSE Raise

\* Mutant: line 15 repeats the label of line 14
PrintPrefix_Duplicated ==
  /\ pc = "l15"
  /\ WriteStdout(Line("Current working directory", env.prefix))
  /\ pc' = "l17"
  /\ UNCHANGED <<env, argForm, project_root, ret, exitCode, prev>>

PrintPrefix ==
  /\ pc = "l15"
  /\ WriteStdout(Line("Virtual environment", env.prefix))
  /\ pc' = "l17"
  /\ UNCHANGED <<env, argForm, project_root, ret, exitCode, prev>>

\* Mutant: the else is lost, the second line is written in either case
PrintVenvStatus_NoElse ==
  /\ pc = "l17"
  /\ IF InVenv(env)
     THEN out' = out \o <<Line("Running in virtual environment", <<>>),
                          Line("Not running in virtual environment", <<>>)>>
     ELSE WriteStdout(Line("Not running in virtual environment", <<>>))
  /\ pc' = "l22"
  /\ UNCHANGED <<env, argForm, project_root, ret, exitCode, prev>>

PrintVenvStatus ==
  /\ pc = "l17"
  /\ IF InVenv(env)
     THEN WriteStdout(Line("Running in virtual environment", <<>>))
     ELSE WriteStdout(Line("Not running in virtual environment", <<>>))
  /\ pc' = "l22"
  /\ UNCHANGED <<env, argForm, project_root, ret, exitCode, prev>>

\* __file__ is not defined when the program text comes from standard input
SetProjectRoot ==
  /\ pc = "l22"
  /\ IF FileDefined(argForm)
     THEN /\ project_root' = Parent(PathOf(FileAttr(env, argForm)))
          /\ pc' = "l23"
          /\ UNCHANGED <<env, argForm, out, ret, exitCode, prev>>
     ELSE Raise

PrintProjectRoot ==
  /\ pc = "l23"
  /\ WriteStdout(Line("Project root", PathStr(project_root)))
  /\ pc' = "l25"
  /\ UNCHANGED <<env, argForm, project_root, ret, exitCode, prev>>

\* Mutant: the closing banner is not written
PrintClosing_Silent ==
  /\ pc = "l25"
  /\ pc' = "l26"
  /\ UNCHANGED <<env, argForm, out, project_root, ret, exitCode, prev>>

PrintClosing ==
  /\ pc = "l25"
  /\ WriteStdout(Line("closing", <<>>))
  /\ pc' = "l26"
  /\ UNCHANGED <<env, argForm, project_root, ret, exitCode, prev>>

\* Mutant: a bare return
Return_Nothing ==
  /\ pc = "l26"
  /\ pc' = "l29"
  /\ UNCHANGED <<env, argForm, out, project_root, ret, exitCode, prev>>

Return ==
  /\ pc = "l26"
  /\ ret' = "Setup successful"
  /\ pc' = "l29"
  /\ UNCHANGED <<env, argForm, out, project_root, exitCode, prev>>

\* The caller drops the value; the module ends and the interpreter exits
Exit ==
  /\ pc = "l29"
  /\ exitCode' = 0
  /\ pc' = "exited"
  /\ UNCHANGED <<env, argForm, out, project_root, ret, prev>>

Finished == pc \in {"exited", "failed"}

Observation ==
  [form |-> argForm, out |-> out, ret |-> ret, exitCode |-> exitCode]

\* The script is run again, in a new process, in the same environment
Rerun(form) ==
  /\ Finished
  /\ Runnable(env, form)
  /\ prev' = <<Observation>>
  /\ argForm' = form
  /\ pc' = "l12"
  /\ out' = <<>>
  /\ project_root' = Absent
  /\ ret' = NoValue
  /\ exitCode' = -1
  /\ UNCHANGED env

\* The fields of the environment in which e and f differ
Changed(e, f) == { k \in DOMAIN e : e[k] /= f[k] }

\* Between two processes the outside world changes, one fact at a time
EnvChange(e) ==
  /\ Finished
  /\ Cardinality(Changed(env, e)) = 1
  /\ env' = e
  /\ pc' = "idle"
  /\ out' = <<>>
  /\ project_root' = Absent
  /\ ret' = NoValue
  /\ exitCode' = -1
  /\ prev' = <<>>
  /\ UNCHANGED argForm

MainStep ==
  \/ PrintBanner
  \/ PrintVersion
  \/ PrintCwd
  \/ PrintPrefix
  \/ PrintVenvStatus
  \/ SetProjectRoot
  \/ PrintProjectRoot
  \/ PrintClosing
  \/ Return

Next ==
  \/ Launch
  \/ PrintBanner
  \/ PrintVersion
  \/ PrintCwd
  \/ PrintPrefix
  \/ PrintVenvStatus
  \/ SetProjectRoot
  \/ PrintProjectRoot
  \/ PrintClosing
  \/ Return
  \/ Exit
  \/ \E form \in ArgForms : Rerun(form)
  \/ \E e \in Envs : EnvChange(e)

Spec == Init /\ [][Next]_vars

\* A started interpreter runs the program to its end
FairSpec == Spec /\ WF_vars(Launch \/ MainStep \/ Exit)

TypeOK ==
  /\ env \in Envs
  /\ argForm \in ArgForms
  /\ pc \in {"idle", "l12", "l13", "l14", "l15", "l17", "l22", "l23", "l25",
             "l26", "l29", "exited", "failed"}
  /\ ret \in {NoValue, "Setup successful"}
  /\ exitCode \in {-1, 0, 1}
  /\ Len(prev) <= 1

-----------------------------------------------------------------------------
(* Vocabulary of the properties *)

Count(label) == Cardinality({ i \in 1..Len(out) : out[i].label = label })

Printed(label) == Count(label) > 0

ValuesOf(label) == { out[i].val : i \in { j \in 1..Len(out) : out[j].label = label } }

RunningLine == "Running in virtual environment"

NotRunningLine == "Not running in virtual environment"

StatusKind(label) ==
  IF label \in {RunningLine, NotRunningLine} THEN "status" ELSE label

Kinds == [i \in 1..Len(out) |-> StatusKind(out[i].label)]

FixedOrder ==
  <<"banner", "Python version", "Current working directory",
    "Virtual environment", "status", "Project root", "closing">>

\* main() has gone past the if/else of lines 17-20
PastBranch == pc \in {"l22", "l23", "l25", "l26", "l29", "exited"}

\* main() has returned
Completed == pc \in {"l29", "exited"}

\* Every introspection call is available
Normal == env.cwdExists /\ argForm /= "stdin"

-----------------------------------------------------------------------------
\* C1: the output never holds both virtual-environment lines nor one of them
\* twice, and once main() is past its if/else it holds exactly one of them.
C1_ExactlyOneStatusLine ==
  /\ Count(RunningLine) + Count(NotRunningLine) <= 1
  /\ PastBranch => Count(RunningLine) + Count(NotRunningLine) = 1

C1_Witness ==
  /\ pc = "exited"
  /\ Printed(NotRunningLine)
  /\ env.base_prefix = env.prefix
  /\ env.real_prefix = Absent

\* C2: past the if/else, the 'Running' line is in the output exactly when
\* real_prefix is present or base_prefix is present and differs from prefix,
\* and the 'Not running' line is in the output in exactly the other cases.
C2_StatusIffCondition ==
  PastBranch =>
    LET isolated ==
          \/ env.real_prefix /= Absent
          \/ (env.base_prefix /= Absent /\ env.base_prefix /= env.prefix)
    IN  /\ Printed(RunningLine) <=> isolated
        /\ Printed(NotRunningLine) <=> ~isolated

C2_Witness ==
  /\ pc = "exited"
  /\ env.real_prefix = Absent
  /\ env.base_prefix = Absent
  /\ Printed(NotRunningLine)

\* C3: at every moment the lines written so far are an initial part of the
\* fixed order banner, version, working directory, prefix, status, project
\* root, closing banner; a run that returned wrote all seven, and a value is
\* returned only after the closing banner.
C3_FixedOrder ==
  /\ Len(out) <= Len(FixedOrder)
  /\ Kinds = SubSeq(FixedOrder, 1, Len(out))
  /\ Completed => Kinds = FixedOrder
  /\ ret /= NoValue => (Len(out) > 0 /\ out[Len(out)].label = "closing")

C3_Witness ==
  /\ pc = "l29"
  /\ ret = "Setup successful"
  /\ Kinds = FixedOrder

\* C4 as stated: a completed run has written six lines.
C4_SixLines == pc = "exited" => Len(out) = 6

\* C4 amended: a completed run has written seven lines.
C4_SevenLines == pc = "exited" => Len(out) = 7

C4_Witness == pc = "exited" /\ Len(out) = 7

\* C5: the 'Project root' line equals the directory that holds the script,
\* whatever the working directory and however the script path was given.
C5_ProjectRootIsScriptDir ==
  Printed("Project root") => ValuesOf("Project root") = {env.scriptDir}

\* C6: once line 14 has run, the output holds one 'Current working directory'
\* line and its value is the working directory of the process.
C6_CwdLineIsCwd ==
  /\ ValuesOf("Current working directory") \subseteq {env.cwd}
  /\ (pc \in {"l15", "l17"} \/ PastBranch)
       => Count("Current working directory") = 1

C6_Witness ==
  /\ pc = "exited"
  /\ env.cwd /= env.scriptDir
  /\ ValuesOf("Current working directory") = {env.cwd}

\* C7: when every introspection call is available main() never raises, a
\* started run always reaches the exit with status 0, and the value main()
\* returned is the literal 'Setup successful' on either side of the branch.
C7_TerminatesWithSuccess ==
  /\ [](Normal => pc /= "failed")
  /\ [](Completed => ret = "Setup successful")
  /\ [](pc = "exited" => exitCode = 0)
  /\ \A b \in BOOLEAN :
       (pc = "l12" /\ Normal /\ InVenv(env) = b)
         ~> (pc = "exited" /\ exitCode = 0 /\ ret = "Setup successful"
               /\ Printed(RunningLine) = b)

C7_Witness ==
  /\ pc = "exited"
  /\ exitCode = 0
  /\ ret = "Setup successful"
  /\ Printed(RunningLine)

\* C8: a run that follows a completed run in the unchanged environment (same
\* version, working directory, prefix attributes and script location) writes
\* the same output and returns the same value.
C8_SecondRunIdentical ==
  (pc = "exited" /\ prev /= <<>> /\ prev[1].exitCode = 0)
    => (out = prev[1].out /\ ret = prev[1].ret)

\* Two runs by the same command line in the unchanged environment agree.
SameCommandSameOutput ==
  (Finished /\ prev /= <<>> /\ prev[1].form = argForm)
    => (out = prev[1].out /\ ret = prev[1].ret /\ exitCode = prev[1].exitCode)

\* C9: no step of a running process changes the environment or the way the
\* script was invoked, and the output only ever grows by one line at its end.
C9_PurelyObservational ==
  [][ ~Finished =>
        /\ env' = env
        /\ argForm' = argForm
        /\ \/ out' = out
           \/ (Len(out') = Len(out) + 1 /\ SubSeq(out', 1, Len(out)) = out) ]_vars

C9_Witness ==
  /\ pc = "l25"
  /\ Len(out) = 6

\* C10: a run in which an introspection call is unavailable ends failed with
\* a non-zero status, having returned nothing and written exactly the lines
\* of the steps before the failing one (so never the closing banner); the
\* failed process takes no further step.
C10_FaultPropagates ==
  /\ [](~Normal => (~Completed /\ ret = NoValue /\ ~Printed("closing")))
  /\ [](pc = "failed" =>
          /\ ~Normal
          /\ exitCode /= 0
          /\ ret = NoValue
          /\ Kinds = SubSeq(FixedOrder, 1, IF env.cwdExists THEN 5 ELSE 2))
  /\ [][pc = "failed" => (pc' = "failed" \/ out' = <<>>)]_vars

C10_Witness ==
  /\ pc = "failed"
  /\ ~env.cwdExists
  /\ Len(out) = 2

====
